---- MODULE Spec2Model ----
(***************************************************************************)
(* Model of the jira_airflow_generator translation pipeline:               *)
(*   schedule_parser.py   discover_timespan, discover_cron,                 *)
(*                        timedelta_calculator                              *)
(*   sql_generator.py     MAPPING_DICT, generate_selects,                   *)
(*                        sql_statement_generator                           *)
(*   advertiser_report_generator.py  assemble_*_dag_json, export_json,      *)
(*                        generate_json_and_sample                          *)
(* Python str values are TLA+ strings; a pandas Series is a sequence of     *)
(* strings; Python None / int / str results are tagged records.             *)
(***************************************************************************)
EXTENDS Integers, Sequences, FiniteSets, TLC

VARIABLES
    pc,                 \* position of the run
    today,              \* datetime.today(): <<year, month, day>>
    all_data_df,        \* the row returned by get_jira_ticket_info
    delivery_method,    \* step 2 of generate_json_and_sample
    recipients,         \* step 2 of generate_json_and_sample
    advertiser_input,   \* step 3, result of get_advertiser_name
    time_span,          \* result of discover_timespan
    cron_job,           \* result of discover_cron (or the cron handed in)
    timedelta_value,    \* result of timedelta_calculator
    select_df,          \* rows of select_df inside sql_statement_generator
    sql_elements,       \* result of sql_statement_generator
    template,           \* which assemble_*_dag_json ran ("" for none)
    airflow_dag,        \* the assembled job document
    json_file,          \* what export_json wrote to json_path
    sample_start,       \* start_date of sample_report_generator
    req                 \* the request the input text was written from

vars == <<pc, today, all_data_df, delivery_method, recipients,
          advertiser_input, time_span, cron_job, timedelta_value, select_df,
          sql_elements, template, airflow_dag, json_file, sample_start, req>>

----------------------------------------------------------------------------
(* Python values *)

None == [kind |-> "None", s |-> "", n |-> 0]
StrVal(s) == [kind |-> "str", s |-> s, n |-> 0]
IntVal(n) == [kind |-> "int", s |-> "", n |-> n]
\* a variable that has not been assigned yet
Unset == [kind |-> "unset", s |-> "", n |-> 0]

Min(S) == CHOOSE x \in S : \A y \in S : x <= y
Max(S) == CHOOSE x \in S : \A y \in S : x >= y

----------------------------------------------------------------------------
(* Python str primitives *)

\* s[i] (1-based), "" outside the string
Char(s, i) == IF i >= 1 /\ i <= Len(s) THEN SubSeq(s, i, i) ELSE ""

Digits == "0123456789"
UpperLetters == "ABCDEFGHIJKLMNOPQRSTUVWXYZ"
LowerLetters == "abcdefghijklmnopqrstuvwxyz"

IndexIn(alphabet, c) == CHOOSE i \in 1..Len(alphabet) : Char(alphabet, i) = c
CharsOf(alphabet) == {Char(alphabet, i) : i \in 1..Len(alphabet)}

DigitValue == [c \in CharsOf(Digits) |-> IndexIn(Digits, c) - 1]
ToLower == [c \in CharsOf(UpperLetters) |-> Char(LowerLetters, IndexIn(UpperLetters, c))]
ToUpper == [c \in CharsOf(LowerLetters) |-> Char(UpperLetters, IndexIn(LowerLetters, c))]

IsDigit(c) == c \in DOMAIN DigitValue
IsSpace(c) == c \in {" ", "\n", "\t"}
IsAlpha(c) == c \in DOMAIN ToLower \/ c \in DOMAIN ToUpper

LowerChar(c) == IF c \in DOMAIN ToLower THEN ToLower[c] ELSE c
UpperChar(c) == IF c \in DOMAIN ToUpper THEN ToUpper[c] ELSE c

\* s.lower(), character by character (the string is halved to keep the
\* evaluation shallow)
RECURSIVE lower(_)
lower(s) ==
    IF Len(s) <= 1 THEN LowerChar(s)
    ELSE lower(SubSeq(s, 1, Len(s) \div 2))
             \o lower(SubSeq(s, (Len(s) \div 2) + 1, Len(s)))

\* p in s
StartsWithAt(s, i, p) ==
    /\ i >= 1
    /\ i + Len(p) - 1 <= Len(s)
    /\ SubSeq(s, i, i + Len(p) - 1) = p
Contains(s, p) == \E i \in 1..(Len(s) - Len(p) + 1) : StartsWithAt(s, i, p)
EndsWith(s, p) == Len(p) <= Len(s) /\ SubSeq(s, Len(s) - Len(p) + 1, Len(s)) = p

\* s.isdigit()
isdigit(s) == s # "" /\ \A i \in 1..Len(s) : IsDigit(Char(s, i))

\* int(s) for a digit string
RECURSIVE int(_)
int(s) ==
    IF s = "" THEN 0
    ELSE int(SubSeq(s, 1, Len(s) - 1)) * 10 + DigitValue[Char(s, Len(s))]

\* str(n) / f'{n}'
RECURSIVE NatStr(_)
NatStr(n) ==
    IF n < 10 THEN Char(Digits, n + 1)
    ELSE NatStr(n \div 10) \o Char(Digits, (n % 10) + 1)
str(n) == IF n < 0 THEN "-" \o NatStr(0 - n) ELSE NatStr(n)

\* f'{n:0wd}' for n >= 0
RECURSIVE ZeroPad(_, _)
ZeroPad(s, w) == IF Len(s) >= w THEN s ELSE ZeroPad("0" \o s, w)
Fmt0(n, w) == ZeroPad(str(n), w)

\* s.replace(a, b) for a single character a
RECURSIVE replace(_, _, _)
replace(s, a, b) ==
    IF Len(s) <= 1 THEN (IF s = a THEN b ELSE s)
    ELSE replace(SubSeq(s, 1, Len(s) \div 2), a, b)
             \o replace(SubSeq(s, (Len(s) \div 2) + 1, Len(s)), a, b)

\* s.strip()
RECURSIVE lstrip(_)
lstrip(s) == IF s # "" /\ IsSpace(Head(s)) THEN lstrip(Tail(s)) ELSE s
RECURSIVE rstrip(_)
rstrip(s) ==
    IF s # "" /\ IsSpace(Char(s, Len(s)))
    THEN rstrip(SubSeq(s, 1, Len(s) - 1)) ELSE s
strip(s) == rstrip(lstrip(s))

\* sep.join(parts)
RECURSIVE join(_, _)
join(sep, parts) ==
    IF parts = <<>> THEN ""
    ELSE IF Len(parts) = 1 THEN parts[1]
    ELSE parts[1] \o sep \o join(sep, Tail(parts))

\* end of the maximal run of digits that starts at i
DigitRunEnd(s, i) ==
    Max({j \in i..Len(s) : \A k \in i..j : IsDigit(Char(s, k))})
\* first position at or after i that is not whitespace (Len(s)+1 if none)
SkipSpaces(s, i) ==
    Min({j \in i..(Len(s) + 1) : j = Len(s) + 1 \/ ~IsSpace(Char(s, j))})

\* s.split(): the maximal runs of non-whitespace
RECURSIVE split_ws(_)
split_ws(s) ==
    LET t == lstrip(s) IN
    IF t = "" THEN <<>>
    ELSE LET e == Min({j \in 1..(Len(t) + 1) :
                          j = Len(t) + 1 \/ IsSpace(Char(t, j))})
         IN <<SubSeq(t, 1, e - 1)>> \o split_ws(SubSeq(t, e, Len(t)))

\* re.findall(r'\d+', s)
RECURSIVE findall_digits(_)
findall_digits(s) ==
    LET P == {i \in 1..Len(s) : IsDigit(Char(s, i))} IN
    IF P = {} THEN <<>>
    ELSE LET b == Min(P)
             e == DigitRunEnd(s, b)
         IN <<SubSeq(s, b, e)>> \o findall_digits(SubSeq(s, e + 1, Len(s)))

----------------------------------------------------------------------------
(* datetime *)

IsLeap(y) == (y % 4 = 0 /\ y % 100 # 0) \/ y % 400 = 0
DaysInMonth(y, m) ==
    IF m = 2 THEN (IF IsLeap(y) THEN 29 ELSE 28)
    ELSE IF m \in {4, 6, 9, 11} THEN 30 ELSE 31
\* datetime(year, month, day) does not raise ValueError
ValidDate(y, m, d) ==
    /\ y >= 1 /\ y <= 9999
    /\ m >= 1 /\ m <= 12
    /\ d >= 1 /\ d <= DaysInMonth(y, m)
\* f'{year:04d}-{month:02d}-{day:02d}' and strftime('%Y-%m-%d')
IsoDate(y, m, d) == Fmt0(y, 4) \o "-" \o Fmt0(m, 2) \o "-" \o Fmt0(d, 2)

----------------------------------------------------------------------------
(* schedule_parser.discover_timespan *)

\* re.search(r'(\d{1,2}/\d{1,2})', s): the match starting at i, as
\* <<month digits, day digits>>, or <<>> when there is none at i
MonthDayAt(s, i) ==
    IF ~(i <= Len(s) /\ IsDigit(Char(s, i))) THEN <<>>
    ELSE LET k == IF i + 1 <= Len(s) /\ IsDigit(Char(s, i + 1)) THEN 2 ELSE 1
             d == i + k + 1
         IN IF ~(Char(s, i + k) = "/" /\ d <= Len(s) /\ IsDigit(Char(s, d)))
            THEN <<>>
            ELSE LET e == IF d + 1 <= Len(s) /\ IsDigit(Char(s, d + 1))
                          THEN d + 1 ELSE d
                 IN <<SubSeq(s, i, i + k - 1), SubSeq(s, d, e)>>
search_month_day(s) ==
    LET P == {i \in 1..Len(s) : MonthDayAt(s, i) # <<>>} IN
    IF P = {} THEN <<>> ELSE MonthDayAt(s, Min(P))

\* re.search(r'(\d+)\s*day', s): group 1, or "" when there is no match
search_n_day(s) ==
    LET P == {i \in 1..Len(s) :
                 /\ IsDigit(Char(s, i))
                 /\ StartsWithAt(s, SkipSpaces(s, DigitRunEnd(s, i) + 1), "day")}
    IN IF P = {} THEN "" ELSE SubSeq(s, Min(P), DigitRunEnd(s, Min(P)))

MTD_MARKER == "toStartOfMonth(today())"
YTD_MARKER == "toStartOfYear(today())"

\* the 'ongoing' / 'starting' branch: <<year, month, day>> handed to datetime()
ongoing_ymd(value_str, now) ==
    LET numbers == findall_digits(value_str) IN
    IF Len(numbers) = 0 THEN now
    ELSE IF Len(numbers) = 1 THEN <<now[1], int(numbers[1]), now[3]>>
    ELSE IF Len(numbers) = 2 THEN <<now[1], int(numbers[1]), int(numbers[2])>>
    ELSE LET year == int(numbers[3])
         IN <<IF year < 100 THEN year + 2000 ELSE year,
              int(numbers[1]), int(numbers[2])>>

\* variant: the first value is used as written
lower_first_as_written(column) == column[1]
lower_first(column) == lower(column[1])

discover_timespan(timespan_column, now) ==
    IF timespan_column = <<>> THEN None
    ELSE
    LET value_str == lower_first(timespan_column) IN
    IF Contains(value_str, "present") THEN
        LET match == search_month_day(value_str) IN
        IF match # <<>>
        THEN StrVal(IsoDate(now[1], int(match[1]), int(match[2])))
        ELSE None
    ELSE IF Contains(value_str, "mtd") \/ Contains(value_str, "month to date")
        THEN StrVal(MTD_MARKER)
    ELSE IF Contains(value_str, "ytd") \/ Contains(value_str, "year to date")
        THEN StrVal(YTD_MARKER)
    ELSE IF Contains(value_str, "prior day") \/ Contains(value_str, "previous day")
        THEN IntVal(1)
    ELSE IF Contains(value_str, "ongoing") \/ Contains(value_str, "starting") THEN
        LET ymd == ongoing_ymd(value_str, now) IN
        IF ValidDate(ymd[1], ymd[2], ymd[3])
        THEN StrVal(IsoDate(ymd[1], ymd[2], ymd[3]))
        ELSE None
    ELSE
        LET match == search_n_day(value_str) IN
        IF match # "" THEN IntVal(int(match)) ELSE None

----------------------------------------------------------------------------
(* schedule_parser.discover_cron *)

\* Series.drop_duplicates(): the first occurrence of each value, in order
RECURSIVE drop_duplicates(_)
drop_duplicates(column) ==
    IF column = <<>> THEN <<>>
    ELSE LET init == drop_duplicates(SubSeq(column, 1, Len(column) - 1))
             last == column[Len(column)]
         IN IF \E i \in 1..Len(init) : init[i] = last
            THEN init ELSE Append(init, last)

RECURSIVE lower_all(_)
lower_all(column) ==
    IF column = <<>> THEN <<>>
    ELSE <<lower(Head(column))>> \o lower_all(Tail(column))

\* re.search(r'(\d+):(\d+)', s): group 2, or "" when there is no match
search_h_mm(s) ==
    LET P == {i \in 1..Len(s) :
                 /\ IsDigit(Char(s, i))
                 /\ Char(s, DigitRunEnd(s, i) + 1) = ":"
                 /\ IsDigit(Char(s, DigitRunEnd(s, i) + 2))}
    IN IF P = {} THEN ""
       ELSE LET b == DigitRunEnd(s, Min(P)) + 2
            IN SubSeq(s, b, DigitRunEnd(s, b))

\* the part  :?(?:\d{{2}})?\s*(am|pm)  of the pattern of line 95, tried at
\* position p: the marker matched, or "" when it does not match there.
\* In a plain (non-f) string  \d{{2}}  is a digit, then "{{", then "}".
AmPmTail(s, p) ==
    LET p1 == IF Char(s, p) = ":" THEN p + 1 ELSE p
        p2 == IF IsDigit(Char(s, p1)) /\ StartsWithAt(s, p1 + 1, "{{}")
              THEN p1 + 4 ELSE p1
        p3 == SkipSpaces(s, p2)
    IN IF StartsWithAt(s, p3, "am") THEN "am"
       ELSE IF StartsWithAt(s, p3, "pm") THEN "pm"
       ELSE ""
\* the match of the whole pattern that starts at i: <<group 1, group 2>>
AmPmAt(s, i) ==
    IF ~IsDigit(Char(s, i)) THEN <<>>
    ELSE LET K == {k \in 1..(DigitRunEnd(s, i) - i + 1) :
                      AmPmTail(s, i + k) # ""}
         IN IF K = {} THEN <<>>
            ELSE <<SubSeq(s, i, i + Max(K) - 1), AmPmTail(s, i + Max(K))>>
\* re.search(r'(\d+):?(?:\d{{2}})?\s*(am|pm)', s)
search_am_pm(s) ==
    LET P == {i \in 1..Len(s) : AmPmAt(s, i) # <<>>} IN
    IF P = {} THEN <<>> ELSE AmPmAt(s, Min(P))

\* Series.str.extract(...).dropna().iloc[0]: the match of the first row
\* that has one
first_h_mm(column) ==
    LET R == {r \in 1..Len(column) : search_h_mm(column[r]) # ""} IN
    IF R = {} THEN "" ELSE search_h_mm(column[Min(R)])
first_am_pm(column) ==
    LET R == {r \in 1..Len(column) : search_am_pm(column[r]) # <<>>} IN
    IF R = {} THEN <<>> ELSE search_am_pm(column[Min(R)])

DEFAULT_MINUTE == 0
DEFAULT_HOUR == 4
DEFAULT_WEEK == 1

\* variant: Sunday numbered 7
weekday_map_sunday_7(name) ==
    CASE name = "monday" -> 1
      [] name = "tuesday" -> 2
      [] name = "wednesday" -> 3
      [] name = "thursday" -> 4
      [] name = "friday" -> 5
      [] name = "saturday" -> 6
      [] name = "sunday" -> 7
\* weekday_map, in insertion order
weekday_names ==
    <<"monday", "tuesday", "wednesday", "thursday", "friday", "saturday", "sunday">>
weekday_map(name) ==
    CASE name = "monday" -> 1
      [] name = "tuesday" -> 2
      [] name = "wednesday" -> 3
      [] name = "thursday" -> 4
      [] name = "friday" -> 5
      [] name = "saturday" -> 6
      [] name = "sunday" -> 0

\* variant: the Eastern names are tested before the Central ones
timezone_offset_eastern_first(first) ==
    IF Contains(first, "et") \/ Contains(first, "est") \/ Contains(first, "edt")
    THEN 3
    ELSE IF Contains(first, "ct") \/ Contains(first, "cst") THEN 2
    ELSE IF Contains(first, "mt") \/ Contains(first, "mst") THEN 1
    ELSE 0
timezone_offset(first) ==
    IF Contains(first, "ct") \/ Contains(first, "cst") THEN 2
    ELSE IF Contains(first, "et") \/ Contains(first, "est") \/ Contains(first, "edt")
    THEN 3
    ELSE IF Contains(first, "mt") \/ Contains(first, "mst") THEN 1
    ELSE 0

\* the hour taken from the am/pm match (lines 96-101)
am_pm_hour(am_pm_match) ==
    LET hour == int(am_pm_match[1]) IN
    IF am_pm_match[2] = "pm" /\ hour < 12 THEN hour + 12 ELSE hour

\* variant: the weekday is written into the day-of-month field
discover_cron_day_of_month(df_and_column) ==
    LET df_lower == drop_duplicates(lower_all(df_and_column))
        first == df_lower[1]
        time_match == first_h_mm(df_lower)
        minute_value == IF time_match # "" THEN int(time_match) ELSE DEFAULT_MINUTE
        am_pm_match == first_am_pm(df_lower)
        hour_0 == IF am_pm_match # <<>> THEN am_pm_hour(am_pm_match) ELSE DEFAULT_HOUR
        hour_value == (hour_0 - timezone_offset(first)) % 24
        W == {i \in 1..Len(weekday_names) : Contains(first, weekday_names[i])}
        week_value == IF W = {} THEN DEFAULT_WEEK ELSE weekday_map(weekday_names[Min(W)])
    IN IF Contains(first, "daily") \/ Contains(first, " day")
       THEN str(minute_value) \o " " \o str(hour_value) \o " * * *"
       ELSE str(minute_value) \o " " \o str(hour_value) \o " "
                \o str(week_value) \o " * *"
\* requires a non-empty Series (df_lower.iloc[0] raises IndexError otherwise)
discover_cron(df_and_column) ==
    LET df_lower == drop_duplicates(lower_all(df_and_column))
        first == df_lower[1]
        time_match == first_h_mm(df_lower)
        minute_value == IF time_match # "" THEN int(time_match) ELSE DEFAULT_MINUTE
        am_pm_match == first_am_pm(df_lower)
        hour_0 == IF am_pm_match # <<>> THEN am_pm_hour(am_pm_match) ELSE DEFAULT_HOUR
        hour_value == (hour_0 - timezone_offset(first)) % 24
        W == {i \in 1..Len(weekday_names) : Contains(first, weekday_names[i])}
        week_value == IF W = {} THEN DEFAULT_WEEK ELSE weekday_map(weekday_names[Min(W)])
    IN IF Contains(first, "daily") \/ Contains(first, " day")
       THEN str(minute_value) \o " " \o str(hour_value) \o " * * *"
       ELSE str(minute_value) \o " " \o str(hour_value) \o " * * " \o str(week_value)

----------------------------------------------------------------------------
(* schedule_parser.timedelta_calculator *)

STANDARD_START_TIME == 3

\* re.sub(r'\s+', '', s)
RECURSIVE remove_ws(_)
remove_ws(s) ==
    IF Len(s) <= 1 THEN (IF IsSpace(s) THEN "" ELSE s)
    ELSE remove_ws(SubSeq(s, 1, Len(s) \div 2))
             \o remove_ws(SubSeq(s, (Len(s) \div 2) + 1, Len(s)))

minute_of(parsed_cron_value) ==
    IF isdigit(parsed_cron_value[1]) THEN int(parsed_cron_value[1]) ELSE 0

\* variant: the weekly offset is not negated
timedelta_calculator_not_negated(cron_value) ==
    LET trimmed_cron_value == remove_ws(cron_value)
        parsed_cron_value == split_ws(cron_value)
    IN
    IF EndsWith(trimmed_cron_value, "***") THEN
        IF Len(parsed_cron_value) >= 2
        THEN <<"Daily", int(parsed_cron_value[2]) - STANDARD_START_TIME,
               minute_of(parsed_cron_value)>>
        ELSE <<"Daily", 0, 0>>
    ELSE IF Char(trimmed_cron_value, Len(trimmed_cron_value)) # "*" THEN
        LET weekday_str == parsed_cron_value[Len(parsed_cron_value)]
            hour_val == (int(weekday_str) * 24)
                          - (int(parsed_cron_value[2]) - STANDARD_START_TIME)
        IN <<"Weekly",
             IF isdigit(weekday_str) THEN hour_val ELSE 0,
             minute_of(parsed_cron_value)>>
    ELSE <<"Monthly", 0, 0>>

\* requires a non-empty cron_value (ValueError otherwise); the fields read
\* with int() are digit strings
timedelta_calculator(cron_value) ==
    LET trimmed_cron_value == remove_ws(cron_value)
        parsed_cron_value == split_ws(cron_value)
    IN
    IF EndsWith(trimmed_cron_value, "***") THEN
        IF Len(parsed_cron_value) >= 2
        THEN <<"Daily", int(parsed_cron_value[2]) - STANDARD_START_TIME,
               minute_of(parsed_cron_value)>>
        ELSE <<"Daily", 0, 0>>
    ELSE IF Char(trimmed_cron_value, Len(trimmed_cron_value)) # "*" THEN
        LET weekday_str == parsed_cron_value[Len(parsed_cron_value)]
            hour_val == (int(weekday_str) * 24)
                          - (int(parsed_cron_value[2]) - STANDARD_START_TIME)
        IN <<"Weekly",
             IF isdigit(weekday_str) THEN hour_val * (0 - 1) ELSE 0,
             minute_of(parsed_cron_value)>>
    ELSE <<"Monthly", 0, 0>>

----------------------------------------------------------------------------
(* sql_generator.MAPPING_DICT and generate_selects *)

MAPPING_ITEMS ==
    <<<<"date",
        "event_date">>,
      <<"partner id",
        "partner_id">>,
      <<"ad group name",
        "adgroup_name">>,
      <<"ad group",
        "adgroup_name">>,
      <<"adgroup name",
        "adgroup_name">>,
      <<"adgroup",
        "adgroup_name">>,
      <<"adgroup lid",
        "adgroup_lid">>,
      <<"adgroup hid",
        "adgroup_hid">>,
      <<"campaign",
        "campaign_name">>,
      <<"campaign name",
        "campaign_name">>,
      <<"campaign lid",
        "campaign_lid">>,
      <<"campaign hid",
        "campaign_hid">>,
      <<"sid",
        "sid">>,
      <<"said",
        "said">>,
      <<"sid-said",
        "concat(sid,\"~\",said)">>,
      <<"advertiser name",
        "advertiser_name">>,
      <<"advertiser",
        "advertiser_name">>,
      <<"keyword",
        "viewed_text">>,
      <<"pub name",
        "affiliate_account_name">>,
      <<"publisher name",
        "affiliate_account_name">>,
      <<"publisher",
        "affiliate_account_name">>,
      <<"publisher lid",
        "affiliate_account_lid">>,
      <<"publisher hid",
        "affiliate_account_hid">>,
      <<"source name",
        "traffic_source_name">>,
      <<"source",
        "traffic_source_name">>,
      <<"traffic source lid",
        "traffic_source_lid">>,
      <<"traffic source hid",
        "traffic_source_hid">>,
      <<"cpc",
        "CASE WHEN isNaN(round(sum(revenue)/sum(paid_clicks),2)) THEN 0 ELSE round(sum(revenue)/sum(paid_clicks),2) END">>,
      <<"cpa",
        "CASE WHEN isNaN(round(sum(revenue)/sum(actions_worth), 2)) THEN 0 WHEN isInfinite(round(sum(revenue)/sum(actions_worth), 2)) THEN 0 ELSE round(sum(revenue)/sum(actions_worth), 2) END">>,
      <<"ctr",
        "COALESCE(ROUND(SUM(paid_clicks)/SUM(impressions), 6), 0)">>,
      <<"cvr",
        "COALESCE(ROUND(SUM(actions_worth) / SUM(paid_clicks), 6), 0)">>,
      <<"clicks",
        "COALESCE(sum(paid_clicks),0)">>,
      <<"conversions",
        "COALESCE(sum(event_fires),0)">>,
      <<"reservations",
        "COALESCE(sum(event_fires),0)">>,
      <<"actions",
        "COALESCE(sum(actions_worth),0)">>,
      <<"conversion rate",
        "round(sum(actions_worth)/sum(paid_clicks), 4)">>,
      <<"conversion value",
        "round(COALESCE(sum(dollars_worth),0),2)">>,
      <<"impressions",
        "round(COALESCE(sum(impressions),0),0)">>,
      <<"imps",
        "round(COALESCE(sum(impressions),0),0)">>,
      <<"spend",
        "round(COALESCE(sum(revenue),0),2)">>,
      <<"cost",
        "round(COALESCE(sum(revenue),0),2)">>,
      <<"revenue",
        "round(COALESCE(sum(dollars_worth),0),2)">>,
      <<"inquiries",
        "round(COALESCE(sum(actions_worth),0),2)">>,
      <<"purchases",
        "round(COALESCE(sum(event_fires),0),2)">>>>
MAPPING_KEYS == {MAPPING_ITEMS[i][1] : i \in 1..Len(MAPPING_ITEMS)}
MAPPING_DICT ==
    [k \in MAPPING_KEYS |->
        MAPPING_ITEMS[CHOOSE i \in 1..Len(MAPPING_ITEMS) : MAPPING_ITEMS[i][1] = k][2]]

\* variant: MAPPING_DICT.get(key, key)
mapping_get_key_default(key) ==
    IF key \in MAPPING_KEYS THEN StrVal(MAPPING_DICT[key]) ELSE StrVal(key)
\* MAPPING_DICT.get(key, None)
mapping_get(key) ==
    IF key \in MAPPING_KEYS THEN StrVal(MAPPING_DICT[key]) ELSE None

generate_selects(main_text) == mapping_get(lower(strip(main_text)))

\* stands for the grave accent (U+0060), which a TLA+ string cannot hold;
\* no input text of the model contains "#"
BACKTICK == "#"
add_backticks(value) ==
    IF Contains(value, " ") THEN BACKTICK \o value \o BACKTICK ELSE value

----------------------------------------------------------------------------
(* sql_generator.sql_statement_generator *)

\* re.split(r'\n|\, and |\, |,', s): the length of the separator that
\* matches at position i (0 when none does); alternatives in pattern order
SeparatorAt(s, i) ==
    IF Char(s, i) = "\n" THEN 1
    ELSE IF StartsWithAt(s, i, ", and ") THEN 6
    ELSE IF StartsWithAt(s, i, ", ") THEN 2
    ELSE IF Char(s, i) = "," THEN 1
    ELSE 0
RECURSIVE split_columns(_)
split_columns(s) ==
    LET P == {i \in 1..Len(s) : SeparatorAt(s, i) > 0} IN
    IF P = {} THEN <<s>>
    ELSE LET i == Min(P) IN
         <<SubSeq(s, 1, i - 1)>>
             \o split_columns(SubSeq(s, i + SeparatorAt(s, i), Len(s)))

\* r'^(.*?)(?:\s*-\s*|\s*=\s*(.*))?$' with group 1 of length n: which way
\* the rest of the pattern matches ("dash", "equals", "end") or "" for none.
\* The optional group is tried before it is skipped, its first alternative
\* before its second.
NameRestAt(s, n) ==
    LET q == SkipSpaces(s, n + 1) IN
    IF Char(s, q) = "-" /\ SkipSpaces(s, q + 1) = Len(s) + 1 THEN "dash"
    ELSE IF Char(s, q) = "=" THEN "equals"
    ELSE IF n = Len(s) THEN "end"
    ELSE ""
\* the lazy group 1 takes the shortest length that lets the rest match
extract_name_info(s) ==
    LET n == Min({k \in 0..Len(s) : NameRestAt(s, k) # ""})
        q == SkipSpaces(s, n + 1)
    IN [main_text |-> StrVal(SubSeq(s, 1, n)),
        info |-> IF NameRestAt(s, n) = "equals"
                 THEN StrVal(SubSeq(s, SkipSpaces(s, q + 1), Len(s)))
                 ELSE None]

IsParen(c) == c \in {"(", ")"}
\* r'^([^()]+)\s*\(([^()]+)\)$'
extract_name_paren(s) ==
    LET P == {i \in 1..Len(s) : IsParen(Char(s, i))} IN
    IF /\ Cardinality(P) = 2
       /\ Char(s, Min(P)) = "("
       /\ Max(P) = Len(s) /\ Char(s, Len(s)) = ")"
       /\ Min(P) >= 2 /\ Max(P) - Min(P) >= 2
    THEN [main_text |-> StrVal(SubSeq(s, 1, Min(P) - 1)),
          info |-> StrVal(SubSeq(s, Min(P) + 1, Len(s) - 1))]
    ELSE [main_text |-> None, info |-> None]

\* a.fillna(b)
fillna(a, b) == IF a = None THEN b ELSE a

\* lines 111-121: the field name and the annotation of one token
main_text_of(token) ==
    fillna(fillna(extract_name_info(token).main_text,
                  extract_name_paren(token).main_text),
           StrVal(token)).s
info_of(token) ==
    fillna(extract_name_info(token).info, extract_name_paren(token).info)

\* word.capitalize()
capitalize(word) ==
    IF word = "" THEN "" ELSE UpperChar(Head(word)) \o lower(Tail(word))
\* word.title(): upper case after an uncased character, lower case otherwise
TitleChar(word, i) ==
    IF IsAlpha(Char(word, i - 1))
    THEN LowerChar(Char(word, i)) ELSE UpperChar(Char(word, i))
RECURSIVE title_range(_, _, _)
title_range(word, lo, hi) ==
    IF lo > hi THEN ""
    ELSE IF lo = hi THEN TitleChar(word, lo)
    ELSE title_range(word, lo, (lo + hi) \div 2)
             \o title_range(word, ((lo + hi) \div 2) + 1, hi)
title(word) == title_range(word, 1, Len(word))

RECURSIVE transform_words(_)
transform_words(words) ==
    IF words = <<>> THEN <<>>
    ELSE <<IF Len(Head(words)) <= 3
           THEN capitalize(Head(words)) ELSE title(Head(words))>>
         \o transform_words(Tail(words))
_transform_text(x) == join(" ", transform_words(split_ws(x)))

AS_COLUMN == "_as_column"
\* variant: blanks are kept
alias_of_blanks_kept(main_text) == main_text \o AS_COLUMN
alias_of(main_text) == replace(main_text, " ", "_") \o AS_COLUMN

\* '' for a null expression
fill_empty(v) == IF v = None THEN "" ELSE v.s

\* one row of select_df (lines 109-157)
column_row(token) ==
    LET main_text == main_text_of(token)
        modified_main_text == _transform_text(main_text)
        selects_for_sql == generate_selects(main_text)
        aliases_for_sql == alias_of(main_text)
        sample_main_text == add_backticks(modified_main_text)
    IN [main_text |-> main_text,
        info |-> info_of(token),
        modified_main_text |-> modified_main_text,
        selects_for_sql |-> selects_for_sql,
        aliases_for_sql |-> aliases_for_sql,
        json_col_names |-> aliases_for_sql \o "|" \o modified_main_text,
        final_sql_select_column |->
            fill_empty(selects_for_sql) \o " as " \o aliases_for_sql,
        sample_main_text |-> sample_main_text,
        sample_report_selects |->
            fill_empty(selects_for_sql) \o " as " \o sample_main_text]

\* the rows of select_df, in token order, rows with an empty name dropped
RECURSIVE column_rows(_)
column_rows(tokens) ==
    IF tokens = <<>> THEN <<>>
    ELSE (IF main_text_of(Head(tokens)) # ""
          THEN <<column_row(Head(tokens))>> ELSE <<>>)
         \o column_rows(Tail(tokens))

build_select_df(text) == column_rows(split_columns(lower(text)))

aggregate_keywords == <<"sum", "count", "min", "max">>
\* Series.str.contains('sum|count|min|max', case=False, na=False)
contains_aggregate(v) ==
    /\ v # None
    /\ \E i \in 1..Len(aggregate_keywords) :
           Contains(lower(v.s), aggregate_keywords[i])

RECURSIVE column_of(_, _)
column_of(rows, name) ==
    IF rows = <<>> THEN <<>>
    ELSE <<Head(rows)[name]>> \o column_of(Tail(rows), name)

\* lines 172-175: selects_for_sql of the rows that are not aggregates,
\* nulls dropped
RECURSIVE group_by_selects(_)
group_by_selects(rows) ==
    IF rows = <<>> THEN <<>>
    ELSE (IF ~contains_aggregate(Head(rows).selects_for_sql)
             /\ Head(rows).selects_for_sql # None
          THEN <<Head(rows).selects_for_sql.s>> ELSE <<>>)
         \o group_by_selects(Tail(rows))

\* str.split('~', expand=True)[k]
tilde_part(s, k) ==
    LET P == {i \in 1..Len(s) : Char(s, i) = "~"}
        cut(j) == IF j = 0 THEN 0
                  ELSE IF Cardinality(P) >= j
                  THEN CHOOSE i \in P : Cardinality({x \in P : x <= i}) = j
                  ELSE Len(s) + 1
    IN SubSeq(s, cut(k) + 1, cut(k + 1) - 1)

\* lines 159-189: the six elements returned, built from the rows of select_df
melted_elements(rows, lidhid) ==
    [melted_column_names |-> join(", ", column_of(rows, "json_col_names")),
     melted_base_sql |->
         "SELECT " \o join(", ", column_of(rows, "final_sql_select_column"))
                   \o " FROM ad_event_view ",
     lid |-> tilde_part(lidhid, 0),
     hid |-> tilde_part(lidhid, 1),
     melted_group_by |-> join(", ", group_by_selects(rows)),
     sample_melted_base_sql |->
         "SELECT " \o join(", ", column_of(rows, "sample_report_selects"))
                   \o " FROM ad_event_view "]

sql_statement_generator(text, lidhid) ==
    melted_elements(build_select_df(text), lidhid)

----------------------------------------------------------------------------
(* advertiser_report_generator: get_advertiser_name, assemble_*_dag_json,
   export_json, sample_report_generator *)

\* s.replace(a, b) for a non-empty string a
RECURSIVE replace_str(_, _, _)
replace_str(s, a, b) ==
    LET P == {i \in 1..Len(s) : StartsWithAt(s, i, a)} IN
    IF P = {} THEN s
    ELSE SubSeq(s, 1, Min(P) - 1) \o b
             \o replace_str(SubSeq(s, Min(P) + Len(a), Len(s)), a, b)

UNKNOWN_ADVERTISER == "Unknown_Advertiser"
\* lines 57-74: ad_event_rows and advertiser_dim_rows are what the two
\* ClickHouse queries return (sequences of advertiser_name)
get_advertiser_name(ad_event_rows, advertiser_dim_rows) ==
    LET advertiser_name_df ==
            IF ad_event_rows = <<>> THEN advertiser_dim_rows ELSE ad_event_rows
    IN IF advertiser_name_df # <<>>
       THEN replace(replace_str(title(advertiser_name_df[1]), "dotcom", ".com"),
                    " ", "_")
       ELSE UNKNOWN_ADVERTISER

\* f'{value}'
format(v) ==
    IF v.kind = "int" THEN str(v.n)
    ELSE IF v.kind = "str" THEN v.s
    ELSE "None"

INTERNAL_RECIPIENT == ", chris.pachulski@ad.net"
SQL_TAIL(el) ==
    " AND (advertiser_lid = " \o el.lid \o " AND advertiser_hid = " \o el.hid
        \o ") GROUP BY " \o el.melted_group_by \o " ORDER BY event_date desc"

\* The job document: the members of the JSON template whose value is
\* interpolated; every other member is the same literal in all three
\* templates.
dag_json(delivery, recipient_list, attachment_name, mail_subject, n_days, el, date_filter, timedelta, cron) ==
    [export_type |-> delivery,
     mail_to |-> recipient_list \o INTERNAL_RECIPIENT,
     attachment_name |-> attachment_name,
     mail_subject |-> mail_subject,
     report_for_past_n_days |-> n_days,
     columns |-> el.melted_column_names,
     scriptedSql |-> el.melted_base_sql \o " where event_date BETWEEN "
                        \o date_filter \o SQL_TAIL(el),
     timedelta_hours |-> str(timedelta[2]),
     timedelta_minutes |-> str(timedelta[3]),
     schedule_interval |-> cron]

\* variant: the job always reports one past day
assemble_int_dag_json_one_day(delivery, recipient_list, advertiser, span, cron, el) ==
    LET timedelta == timedelta_calculator(cron) IN
    dag_json(delivery, recipient_list,
             "adnet_" \o advertiser \o "_${start_date}_${end_date}.csv",
             "Ad.net - " \o replace(advertiser, "_", " ") \o " "
                 \o timedelta[1] \o " Report",
             "1", el, ":startDate AND :endDate", timedelta, cron)
assemble_int_dag_json(delivery, recipient_list, advertiser, span, cron, el) ==
    LET timedelta == timedelta_calculator(cron) IN
    dag_json(delivery, recipient_list,
             "adnet_" \o advertiser \o "_${start_date}_${end_date}.csv",
             "Ad.net - " \o replace(advertiser, "_", " ") \o " "
                 \o timedelta[1] \o " Report",
             format(span), el, ":startDate AND :endDate", timedelta, cron)

assemble_str_dag_json(delivery, recipient_list, advertiser, span, cron, el) ==
    LET timedelta == timedelta_calculator(cron) IN
    dag_json(delivery, recipient_list,
             "adnet_" \o advertiser \o "_" \o format(span) \o "_${end_date}.csv",
             "Ad.net - " \o replace(advertiser, "_", " ") \o " "
                 \o timedelta[1] \o " Report",
             "1", el, "'" \o format(span) \o "' AND :endDate", timedelta, cron)

assemble_default_dag_json(delivery, recipient_list, advertiser, span, cron, el) ==
    LET timedelta == timedelta_calculator(cron)
        display_span == IF span = StrVal(MTD_MARKER) THEN "MTD"
                        ELSE IF span = StrVal(YTD_MARKER) THEN "YTD"
                        ELSE format(span)
        subject_time == IF span = StrVal(MTD_MARKER) THEN "MTD Report"
                        ELSE IF span = StrVal(YTD_MARKER) THEN "YTD Report"
                        ELSE timedelta[1] \o " Report"
        date_filter == IF span = StrVal(MTD_MARKER)
                       THEN "toStartOfMonth(today()) AND :endDate"
                       ELSE IF span = StrVal(YTD_MARKER)
                       THEN "toStartOfYear(today()) AND :endDate"
                       ELSE ":startDate AND :endDate"
    IN dag_json(delivery, recipient_list,
                "adnet_" \o advertiser \o "_" \o display_span \o "_${end_date}.csv",
                "Ad.net - " \o replace(advertiser, "_", " ") \o " " \o subject_time,
                "1", el, date_filter, timedelta, cron)

\* airflow_dag.replace('\n', '').replace('    ', '') on one member
collapse(s) == replace_str(replace(s, "\n", ""), "    ", "")
\* what export_json writes for the document
export_json(dag) == [k \in DOMAIN dag |-> collapse(dag[k])]

\* re.search(r'\d{4}-\d{2}-\d{2}', s)
IsoShapeAt(s, i) ==
    /\ \A k \in {0, 1, 2, 3, 5, 6, 8, 9} : IsDigit(Char(s, i + k))
    /\ Char(s, i + 4) = "-" /\ Char(s, i + 7) = "-"
search_iso_date(s) == \E i \in 1..Len(s) : IsoShapeAt(s, i)

\* lines 284-290: the start of the sample window, as the day it is counted
\* from and the number of days subtracted
sample_start_date(span) ==
    IF span.kind = "int" THEN [from |-> "today", minus |-> span.n]
    ELSE IF span.kind = "str" /\ search_iso_date(span.s)
    THEN [from |-> span.s, minus |-> 0]
    ELSE [from |-> "today", minus |-> 2]

----------------------------------------------------------------------------
(* Inputs *)

\* bounds
MaxTimespanWords == 3
MaxScheduleWords == 2
MaxColumns == 2
MaxMinute == 59
MaxHour == 23

SeqsUpTo(S, n) == UNION {[1..k -> S] : k \in 1..n}

Todays == {<<2026, 11, 3>>, <<2024, 1, 31>>}

EmptyFrame ==
    [time_span |-> <<>>, period_and_time |-> <<>>, sql_select_columns |-> "",
     lid_hid |-> "", delivery_method |-> "", recipient_list |-> ""]
Ticket(span_col, schedule_col, columns) ==
    [time_span |-> span_col, period_and_time |-> schedule_col,
     sql_select_columns |-> columns, lid_hid |-> "12~34",
     delivery_method |-> "Email", recipient_list |-> "Ann@x.com;bob@y.com"]

NoDocument ==
    [export_type |-> "", mail_to |-> "", attachment_name |-> "",
     mail_subject |-> "", report_for_past_n_days |-> "", columns |-> "",
     scriptedSql |-> "", timedelta_hours |-> "", timedelta_minutes |-> "",
     schedule_interval |-> ""]
NoElements ==
    [melted_column_names |-> "", melted_base_sql |-> "", lid |-> "",
     hid |-> "", melted_group_by |-> "", sample_melted_base_sql |-> ""]
NoSample == [from |-> "", minus |-> 0]

\* the state of a run before anything was computed
Fresh ==
    /\ delivery_method = ""
    /\ recipients = ""
    /\ advertiser_input = ""
    /\ time_span = Unset
    /\ cron_job = ""
    /\ timedelta_value = <<>>
    /\ select_df = <<>>
    /\ sql_elements = NoElements
    /\ template = ""
    /\ airflow_dag = NoDocument
    /\ json_file = NoDocument
    /\ sample_start = NoSample

\* tickets of the whole run
TicketTimespans ==
    {"Last 7 Days", "Present 03/10", "Present 13/45", "MTD", "year to date",
     "prior day", "starting 1/15/25", "ongoing 2/30", "weekly", "last 0 days"}
TicketSchedules ==
    {"Daily at 10:30 am", "Every Monday at 8 am CST", "weekly", "friday 2 pm et"}
TicketColumns ==
    {"Clicks, CPC - cost per click, Publisher Name",
     "Date, Spend, bounce rate", "date\nclicks"}
Tickets ==
    {Ticket(<<t>>, <<s>>, c) :
        t \in TicketTimespans, s \in TicketSchedules, c \in TicketColumns}
AdvertiserRows == {<<>>, <<"acme dotcom">>}

\* timespan texts: words joined by blanks
TimespanWords ==
    {"Present", "03/10", "13/45", "MTD", "month to date", "YTD",
     "year to date", "prior day", "previous day", "ongoing", "starting",
     "Last", "7", "0", "Days", "days", "2/30/25"}
TimespanTexts == {join(" ", w) : w \in SeqsUpTo(TimespanWords, MaxTimespanWords)}

\* schedule texts: words joined by blanks; a clock time is one word
ClockTimes ==
    {[h |-> 10, m |-> 30, marker |-> "am"], [h |-> 2, m |-> 5, marker |-> "pm"],
     [h |-> 12, m |-> 0, marker |-> "pm"], [h |-> 10, m |-> 10, marker |-> "am"]}
TimeWord(t) == str(t.h) \o ":" \o Fmt0(t.m, 2) \o " " \o t.marker
TimeWords == {TimeWord(t) : t \in ClockTimes}
PlainWords == {"Daily", "every day", "weekly", "Monday", "sunday", "Saturday", "at"}
ZoneWords == {"CST", "et", "mt", "PST"}
OtherWords == {"9 pm", "8am", "1 am", "99:75", "7 days"}
ScheduleWords == PlainWords \cup TimeWords \cup ZoneWords \cup OtherWords
SecondRows == {<<>>, <<"Friday 9:45 pm">>}

\* column lists: tokens <<name, annotation>> joined by one separator
ColumnTokens ==
    {<<"Clicks", "">>, <<"CPC", " - cost per click">>, <<"Publisher Name", "">>,
     <<"CPC", " = cost per click">>, <<"Clicks", " (paid)">>,
     <<"bounce rate", "">>, <<"Date", "">>, <<"", "-">>, <<"", "">>}
Separators == {"\n", ", and ", ", ", ","}
RECURSIVE token_texts(_)
token_texts(tokens) ==
    IF tokens = <<>> THEN <<>>
    ELSE <<Head(tokens)[1] \o Head(tokens)[2]>> \o token_texts(Tail(tokens))
ColumnText(r) == join(r.sep, token_texts(r.tokens))
\* two longer requests, the first the column list of the specification's
\* example
LongerRequests ==
    {[tokens |-> <<<<"Clicks", "">>, <<"CPC", " - cost per click">>,
                   <<"Publisher Name", "">>>>, sep |-> ", "],
     [tokens |-> <<<<"Date", "">>, <<"bounce rate", "">>, <<"Clicks", "">>>>,
      sep |-> ", "]}
ColumnRequests ==
    {[tokens |-> t, sep |-> p] :
        t \in SeqsUpTo(ColumnTokens, MaxColumns), p \in Separators}
    \cup LongerRequests

NoRequest == <<>>

----------------------------------------------------------------------------
(* generate_json_and_sample, step by step *)

Init ==
    /\ pc = "start"
    /\ today \in Todays
    /\ all_data_df = EmptyFrame
    /\ req = NoRequest
    /\ Fresh

\* 1) get_jira_ticket_info
Fetch ==
    /\ pc = "start"
    /\ \E t \in Tickets : all_data_df' = t
    /\ pc' = "fetched"
    /\ UNCHANGED <<today, delivery_method, recipients, advertiser_input,
                   time_span, cron_job, timedelta_value, select_df,
                   sql_elements, template, airflow_dag, json_file,
                   sample_start, req>>

\* 2) delivery_method, recipients
ParseColumns ==
    /\ pc = "fetched"
    /\ delivery_method' = lower(all_data_df.delivery_method)
    /\ recipients' = replace(lower(all_data_df.recipient_list), ";", ",")
    /\ pc' = "parsed"
    /\ UNCHANGED <<today, all_data_df, advertiser_input, time_span, cron_job,
                   timedelta_value, select_df, sql_elements, template,
                   airflow_dag, json_file, sample_start, req>>

\* 3) get_advertiser_name
DiscoverAdvertiser ==
    /\ pc = "parsed"
    /\ \E r1 \in AdvertiserRows, r2 \in AdvertiserRows :
           advertiser_input' = get_advertiser_name(r1, r2)
    /\ pc' = "advertiser"
    /\ UNCHANGED <<today, all_data_df, delivery_method, recipients, time_span,
                   cron_job, timedelta_value, select_df, sql_elements,
                   template, airflow_dag, json_file, sample_start, req>>

\* 4) discover_timespan, discover_cron
TimeSpanAndCron ==
    /\ pc = "advertiser"
    /\ time_span' = discover_timespan(all_data_df.time_span, today)
    /\ cron_job' = discover_cron(all_data_df.period_and_time)
    /\ pc' = "scheduled"
    /\ UNCHANGED <<today, all_data_df, delivery_method, recipients,
                   advertiser_input, timedelta_value, select_df, sql_elements,
                   template, airflow_dag, json_file, sample_start, req>>

\* 5) sql_statement_generator
SqlElements ==
    /\ pc = "scheduled"
    /\ select_df' = build_select_df(all_data_df.sql_select_columns)
    /\ sql_elements' = melted_elements(select_df', all_data_df.lid_hid)
    /\ pc' = "sql"
    /\ UNCHANGED <<today, all_data_df, delivery_method, recipients,
                   advertiser_input, time_span, cron_job, timedelta_value,
                   template, airflow_dag, json_file, sample_start, req>>

Assembled(name, dag) ==
    /\ template' = name
    /\ airflow_dag' = dag
    /\ timedelta_value' = timedelta_calculator(cron_job)
    /\ pc' = "assembled"
    /\ UNCHANGED <<today, all_data_df, delivery_method, recipients,
                   advertiser_input, time_span, cron_job, select_df,
                   sql_elements, json_file, sample_start, req>>

\* 6) isinstance(time_span, int)
AssembleInt ==
    /\ pc = "sql"
    /\ time_span.kind = "int"
    /\ Assembled("int", assemble_int_dag_json(delivery_method, recipients,
                     advertiser_input, time_span, cron_job, sql_elements))

\* 6) isinstance(time_span, str) and '-' in time_span
AssembleStr ==
    /\ pc = "sql"
    /\ time_span.kind = "str" /\ Contains(time_span.s, "-")
    /\ Assembled("str", assemble_str_dag_json(delivery_method, recipients,
                     advertiser_input, time_span, cron_job, sql_elements))

\* 6) else
AssembleDefault ==
    /\ pc = "sql"
    /\ time_span.kind # "int"
    /\ ~(time_span.kind = "str" /\ Contains(time_span.s, "-"))
    /\ Assembled("default", assemble_default_dag_json(delivery_method,
                     recipients, advertiser_input, time_span, cron_job,
                     sql_elements))

\* 7) export_json
ExportJson ==
    /\ pc = "assembled"
    /\ json_file' = export_json(airflow_dag)
    /\ pc' = "exported"
    /\ UNCHANGED <<today, all_data_df, delivery_method, recipients,
                   advertiser_input, time_span, cron_job, timedelta_value,
                   select_df, sql_elements, template, airflow_dag,
                   sample_start, req>>

\* pd.to_datetime(time_span) raises on a string of date shape that is no date
to_datetime_raises(span) ==
    /\ span.kind = "str" /\ search_iso_date(span.s)
    /\ ~(/\ Len(span.s) = 10 /\ IsoShapeAt(span.s, 1)
         /\ ValidDate(int(SubSeq(span.s, 1, 4)), int(SubSeq(span.s, 6, 7)),
                      int(SubSeq(span.s, 9, 10))))

\* 8) sample_report_generator
SampleReport ==
    /\ pc = "exported"
    /\ ~to_datetime_raises(time_span)
    /\ sample_start' = sample_start_date(time_span)
    /\ pc' = "done"
    /\ UNCHANGED <<today, all_data_df, delivery_method, recipients,
                   advertiser_input, time_span, cron_job, timedelta_value,
                   select_df, sql_elements, template, airflow_dag, json_file,
                   req>>

SampleReportRaises ==
    /\ pc = "exported"
    /\ to_datetime_raises(time_span)
    /\ pc' = "raised"
    /\ UNCHANGED <<today, all_data_df, delivery_method, recipients,
                   advertiser_input, time_span, cron_job, timedelta_value,
                   select_df, sql_elements, template, airflow_dag, json_file,
                   sample_start, req>>

Next ==
    \/ Fetch
    \/ ParseColumns
    \/ DiscoverAdvertiser
    \/ TimeSpanAndCron
    \/ SqlElements
    \/ AssembleInt
    \/ AssembleStr
    \/ AssembleDefault
    \/ ExportJson
    \/ SampleReport
    \/ SampleReportRaises

Spec == Init /\ [][Next]_vars

----------------------------------------------------------------------------
(* discover_timespan on its own *)

InitTimespan ==
    /\ pc = "start"
    /\ today \in Todays
    /\ \E col \in {<<>>} \cup {<<t>> : t \in TimespanTexts} :
           all_data_df = Ticket(col, <<>>, "")
    /\ req = NoRequest
    /\ Fresh

CallDiscoverTimespan ==
    /\ pc = "start"
    /\ time_span' = discover_timespan(all_data_df.time_span, today)
    /\ pc' = "done"
    /\ UNCHANGED <<today, all_data_df, delivery_method, recipients,
                   advertiser_input, cron_job, timedelta_value, select_df,
                   sql_elements, template, airflow_dag, json_file,
                   sample_start, req>>

NextTimespan == CallDiscoverTimespan

SpecTimespan == InitTimespan /\ [][NextTimespan]_vars

----------------------------------------------------------------------------
(* discover_cron, then timedelta_calculator on its result *)

InitCron ==
    /\ pc = "start"
    /\ today \in {<<2026, 11, 3>>}
    /\ \/ /\ req = NoRequest
          /\ all_data_df = Ticket(<<>>, <<>>, "")
       \/ \E w \in SeqsUpTo(ScheduleWords, MaxScheduleWords), more \in SecondRows :
              /\ req = w
              /\ all_data_df = Ticket(<<>>, <<join(" ", w)>> \o more, "")
    /\ Fresh

CallDiscoverCron ==
    /\ pc = "start"
    /\ all_data_df.period_and_time # <<>>
    /\ cron_job' = discover_cron(all_data_df.period_and_time)
    /\ pc' = "cron"
    /\ UNCHANGED <<today, all_data_df, delivery_method, recipients,
                   advertiser_input, time_span, timedelta_value, select_df,
                   sql_elements, template, airflow_dag, json_file,
                   sample_start, req>>

\* df_lower.iloc[0] on an empty Series: IndexError
DiscoverCronRaises ==
    /\ pc = "start"
    /\ all_data_df.period_and_time = <<>>
    /\ pc' = "raised"
    /\ UNCHANGED <<today, all_data_df, delivery_method, recipients,
                   advertiser_input, time_span, cron_job, timedelta_value,
                   select_df, sql_elements, template, airflow_dag, json_file,
                   sample_start, req>>

CallTimedeltaCalculator ==
    /\ pc = "cron"
    /\ cron_job # ""
    /\ timedelta_value' = timedelta_calculator(cron_job)
    /\ pc' = "done"
    /\ UNCHANGED <<today, all_data_df, delivery_method, recipients,
                   advertiser_input, time_span, cron_job, select_df,
                   sql_elements, template, airflow_dag, json_file,
                   sample_start, req>>

NextCron == CallDiscoverCron \/ DiscoverCronRaises \/ CallTimedeltaCalculator

SpecCron == InitCron /\ [][NextCron]_vars

----------------------------------------------------------------------------
(* timedelta_calculator on every cron 'M H * * d' *)

DayFields == {"*", "0", "1", "2", "3", "4", "5", "6"}
CronOf(r) == str(r.m) \o " " \o str(r.h) \o " * * " \o r.d

InitLag ==
    /\ pc = "cron"
    /\ today \in {<<2026, 11, 3>>}
    /\ all_data_df = EmptyFrame
    /\ req \in [m : 0..MaxMinute, h : 0..MaxHour, d : DayFields]
    /\ delivery_method = ""
    /\ recipients = ""
    /\ advertiser_input = ""
    /\ time_span = Unset
    /\ cron_job = CronOf(req)
    /\ timedelta_value = <<>>
    /\ select_df = <<>>
    /\ sql_elements = NoElements
    /\ template = ""
    /\ airflow_dag = NoDocument
    /\ json_file = NoDocument
    /\ sample_start = NoSample

NextLag == CallTimedeltaCalculator

SpecLag == InitLag /\ [][NextLag]_vars

----------------------------------------------------------------------------
(* sql_statement_generator on its own *)

InitSql ==
    /\ pc = "start"
    /\ today \in {<<2026, 11, 3>>}
    /\ req \in ColumnRequests
    /\ all_data_df = Ticket(<<>>, <<>>, ColumnText(req))
    /\ Fresh

CallSqlStatementGenerator ==
    /\ pc = "start"
    /\ select_df' = build_select_df(all_data_df.sql_select_columns)
    /\ sql_elements' = melted_elements(select_df', all_data_df.lid_hid)
    /\ pc' = "done"
    /\ UNCHANGED <<today, all_data_df, delivery_method, recipients,
                   advertiser_input, time_span, cron_job, timedelta_value,
                   template, airflow_dag, json_file, sample_start, req>>

NextSql == CallSqlStatementGenerator

SpecSql == InitSql /\ [][NextSql]_vars

----------------------------------------------------------------------------
(* Properties *)

\* s.split(' ')
RECURSIVE split_blank(_)
split_blank(s) ==
    LET P == {i \in 1..Len(s) : Char(s, i) = " "} IN
    IF P = {} THEN <<s>>
    ELSE <<SubSeq(s, 1, Min(P) - 1)>> \o split_blank(SubSeq(s, Min(P) + 1, Len(s)))

\* C1: whenever discover_timespan yields None for the ticket's timespan
\* text, generate_json_and_sample halts before job assembly: no
\* assemble_*_dag_json template runs and export_json writes no document.
C1_UnparsedHaltsAssembly ==
    time_span = None => (template = "" /\ json_file = NoDocument)

\* C2: for every non-empty schedule Series the cron of discover_cron has
\* exactly 5 space-separated fields, fields 3 and 4 are '*', and field 5 is
\* '*' or an integer in 0..6.
C2_CronShape ==
    pc \in {"cron", "done"} =>
        LET f == split_blank(cron_job) IN
        /\ Len(f) = 5
        /\ f[3] = "*" /\ f[4] = "*"
        /\ f[5] \in {"*", "0", "1", "2", "3", "4", "5", "6"}
C2_Witness ==
    /\ pc = "done"
    /\ all_data_df.period_and_time = <<"sunday 9 pm">>
    /\ cron_job = "0 21 * * 0"

\* the request tokens that carry a field name, and the texts of all tokens
HasName(token) == token[1] # ""
NamedTokens == SelectSeq(req.tokens, HasName)
IsAnnotated(token) == token[1] # "" /\ token[2] # ""

\* C3: a token 'name - description', 'name = description' or
\* 'name (description)' is looked up, aliased and labelled by 'name' alone;
\* 'CPC - cost per click' resolves to the guarded cpc expression with alias
\* cpc_as_column.
C3_AnnotationDiscarded ==
    pc = "done" =>
        /\ Len(select_df) = Len(NamedTokens)
        /\ \A i \in 1..Len(NamedTokens) :
               IsAnnotated(NamedTokens[i]) =>
                   LET name == lower(NamedTokens[i][1]) IN
                   /\ select_df[i].main_text = name
                   /\ select_df[i].selects_for_sql = mapping_get(name)
                   /\ select_df[i].aliases_for_sql = alias_of(name)
                   /\ select_df[i].modified_main_text = _transform_text(name)

\* alias = name with every blank replaced by '_', then '_as_column'
AliasOk(row) ==
    /\ Len(row.aliases_for_sql) = Len(row.main_text) + Len(AS_COLUMN)
    /\ EndsWith(row.aliases_for_sql, AS_COLUMN)
    /\ \A k \in 1..Len(row.main_text) :
           Char(row.aliases_for_sql, k) =
               IF Char(row.main_text, k) = " " THEN "_" ELSE Char(row.main_text, k)
\* label = the words of the name, each capitalized
LabelOk(row) ==
    LET words == split_ws(row.main_text)
        shown == split_ws(row.modified_main_text)
    IN /\ Len(shown) = Len(words)
       /\ row.modified_main_text = join(" ", shown)
       /\ \A k \in 1..Len(words) :
              /\ lower(shown[k]) = words[k]
              /\ Head(shown[k]) = UpperChar(Head(words[k]))
\* the specs of the given tokens, in their order, with alias and label, and
\* the three lists built in that order
SpecsFollow(tokens) ==
    /\ Len(select_df) = Len(tokens)
    /\ \A i \in 1..Len(select_df) :
           /\ StartsWithAt(select_df[i].main_text, 1, lower(tokens[i][1]))
           /\ AliasOk(select_df[i])
           /\ LabelOk(select_df[i])
           /\ select_df[i].json_col_names =
                  select_df[i].aliases_for_sql \o "|" \o select_df[i].modified_main_text
    /\ sql_elements.melted_column_names =
           join(", ", column_of(select_df, "json_col_names"))
    /\ sql_elements.melted_base_sql =
           "SELECT " \o join(", ", column_of(select_df, "final_sql_select_column"))
                     \o " FROM ad_event_view "
    /\ sql_elements.sample_melted_base_sql =
           "SELECT " \o join(", ", column_of(select_df, "sample_report_selects"))
                     \o " FROM ad_event_view "
ExampleColumns == "Clicks, CPC - cost per click, Publisher Name"
ExampleFollows ==
    all_data_df.sql_select_columns = ExampleColumns =>
        /\ Len(select_df) = 3
        /\ select_df[3].modified_main_text = "Publisher Name"
        /\ select_df[3].aliases_for_sql = "publisher_name_as_column"

IsNonEmptyToken(token) == token[1] \o token[2] # ""
\* C4 as stated: one Column Spec per non-empty token, in input order, with
\* alias and label derived from the name; the manifest, the SELECT list and
\* the sample SELECT list keep that order.
C4_OneSpecPerNonEmptyToken ==
    pc = "done" =>
        SpecsFollow(SelectSeq(req.tokens, IsNonEmptyToken)) /\ ExampleFollows
\* C4 amended: one Column Spec per token whose field name is non-empty (a
\* token that is only a dash has an empty name and yields no spec), in
\* input order, alias and label as stated, the three lists in that order.
C4_OneSpecPerNamedToken ==
    pc = "done" => SpecsFollow(NamedTokens) /\ ExampleFollows
C4_Witness ==
    /\ pc = "done"
    /\ all_data_df.sql_select_columns = ExampleColumns
    /\ Len(select_df) = 3
    /\ sql_elements.melted_column_names =
           "clicks_as_column|Clicks, cpc_-_cost_per_click_as_column|Cpc - Cost Per Click, publisher_name_as_column|Publisher Name"

IsUnmapped(row) == lower(strip(row.main_text)) \notin MAPPING_KEYS
IsMapped(row) == ~IsUnmapped(row)
\* C5: a field absent from MAPPING_DICT yields a null expression, adds
\* nothing to the GROUP BY string, and keeps its position in the column
\* manifest (alias|label) and in the SELECT list as ' as <alias>'.
C5_UnmappedField ==
    pc = "done" =>
        /\ \A i \in 1..Len(select_df) :
               IsUnmapped(select_df[i]) =>
                   /\ select_df[i].selects_for_sql = None
                   /\ select_df[i].final_sql_select_column =
                          " as " \o select_df[i].aliases_for_sql
                   /\ split_columns(sql_elements.melted_column_names)[i] =
                          select_df[i].aliases_for_sql \o "|"
                              \o select_df[i].modified_main_text
        /\ Len(split_columns(sql_elements.melted_column_names)) = Max({1, Len(select_df)})
        /\ sql_elements.melted_base_sql =
               "SELECT " \o join(", ", column_of(select_df, "final_sql_select_column"))
                         \o " FROM ad_event_view "
        /\ sql_elements.melted_group_by =
               join(", ", group_by_selects(SelectSeq(select_df, IsMapped)))
C5_Witness ==
    /\ pc = "done"
    /\ req.tokens = <<<<"Date", "">>, <<"bounce rate", "">>, <<"Clicks", "">>>>
    /\ select_df[2].selects_for_sql = None
    /\ sql_elements.melted_group_by = "event_date"
    /\ sql_elements.melted_base_sql =
           "SELECT event_date as date_as_column,  as bounce_rate_as_column, COALESCE(sum(paid_clicks),0) as clicks_as_column FROM ad_event_view "

\* C6: for every cron 'M H * * d': (Daily, H-3, M) when d is '*', and
\* (Weekly, -((w*24) - (H-3)), M) when d is the digit w.
C6_LagFormula ==
    pc = "done" =>
        timedelta_value =
            IF req.d = "*"
            THEN <<"Daily", req.h - 3, req.m>>
            ELSE <<"Weekly", 0 - ((DigitValue[req.d] * 24) - (req.h - 3)), req.m>>
C6_Witness ==
    /\ pc = "done"
    /\ cron_job = "30 8 * * 1"
    /\ timedelta_value = <<"Weekly", 0 - 19, 30>>

\* the rule of the fixed order that the lowercased text matches first
TimespanRule(text) ==
    LET v == lower(text) IN
    IF Contains(v, "present") THEN 1
    ELSE IF Contains(v, "mtd") \/ Contains(v, "month to date") THEN 2
    ELSE IF Contains(v, "ytd") \/ Contains(v, "year to date") THEN 3
    ELSE IF Contains(v, "prior day") \/ Contains(v, "previous day") THEN 4
    ELSE IF Contains(v, "ongoing") \/ Contains(v, "starting") THEN 5
    ELSE 6
IsMarker(v) == v = StrVal(MTD_MARKER) \/ v = StrVal(YTD_MARKER)
IsDateOrNone(v) == v = None \/ (v.kind = "str" /\ ~IsMarker(v))
\* C7: discover_timespan classifies by the first matching rule, on the
\* lowercased text: 'mtd' / 'month to date' without 'present' gives MTD,
\* 'ytd' / 'year to date' without an earlier keyword gives YTD, and
\* 'Last 7 Days' and 'Last 7 days' both give 7.
C7_FirstRuleWins ==
    (pc = "done" /\ all_data_df.time_span # <<>>) =>
        LET text == all_data_df.time_span[1]
            rule == TimespanRule(text)
        IN /\ rule = 1 => IsDateOrNone(time_span)
           /\ rule = 2 => time_span = StrVal(MTD_MARKER)
           /\ rule = 3 => time_span = StrVal(YTD_MARKER)
           /\ rule = 4 => time_span = IntVal(1)
           /\ rule = 5 => IsDateOrNone(time_span)
           /\ rule = 6 => time_span = None \/ time_span.kind = "int"
           /\ text \in {"Last 7 Days", "Last 7 days"} => time_span = IntVal(7)
C7_Witness ==
    /\ pc = "done"
    /\ all_data_df.time_span = <<"Last 7 Days">>
    /\ time_span = IntVal(7)

IsCalendarDate(s) ==
    /\ Len(s) = 10
    /\ IsoShapeAt(s, 1)
    /\ ValidDate(int(SubSeq(s, 1, 4)), int(SubSeq(s, 6, 7)), int(SubSeq(s, 9, 10)))
\* C8: every result of discover_timespan other than None is a positive day
\* count, a 'YYYY-MM-DD' string of a real calendar date, or one of the two
\* rolling-window markers.
C8_WellFormedTimespan ==
    pc = "done" =>
        \/ time_span = None
        \/ time_span.kind = "int" /\ time_span.n >= 1
        \/ IsMarker(time_span)
        \/ time_span.kind = "str" /\ IsCalendarDate(time_span.s)

To24(h, marker) == IF marker = "pm" /\ h < 12 THEN h + 12 ELSE h
\* C10: for a schedule text with a time 'H:MM am' or 'H:MM pm' and no
\* timezone token, discover_cron emits minute MM and the hour H in 24-hour
\* form.
C10_ClockTime ==
    \A t \in ClockTimes :
        (/\ pc \in {"cron", "done"}
         /\ all_data_df.period_and_time = <<join(" ", req)>>
         /\ Cardinality({i \in 1..Len(req) : req[i] = TimeWord(t)}) = 1
         /\ \A i \in 1..Len(req) : req[i] \in PlainWords \cup {TimeWord(t)}
         /\ timezone_offset(lower(join(" ", req))) = 0)
        => /\ split_blank(cron_job)[1] = str(t.m)
           /\ split_blank(cron_job)[2] = str(To24(t.h, t.marker))

\* a plain column reference: an identifier, no call and no operator
IsPlainColumn(v) ==
    /\ v # None
    /\ v.s # ""
    /\ \A i \in 1..Len(v.s) : Char(v.s, i) = "_" \/ IsAlpha(Char(v.s, i))
RECURSIVE plain_columns(_)
plain_columns(rows) ==
    IF rows = <<>> THEN <<>>
    ELSE (IF IsPlainColumn(Head(rows).selects_for_sql)
          THEN <<Head(rows).selects_for_sql.s>> ELSE <<>>)
         \o plain_columns(Tail(rows))
\* C11: the GROUP BY string consists of exactly the requested fields whose
\* mapped expression is a plain column reference, in input order: no
\* requested dimension is omitted and no aggregate expression is included.
C11_GroupByDimensions ==
    pc = "done" =>
        sql_elements.melted_group_by = join(", ", plain_columns(select_df))

IsAssembled == pc \in {"assembled", "exported", "done", "raised"}
FixedJob ==
    /\ template = "int"
    /\ airflow_dag.report_for_past_n_days = str(time_span.n)
    /\ Contains(airflow_dag.scriptedSql,
                " where event_date BETWEEN :startDate AND :endDate AND (")
AbsoluteJob ==
    /\ template = "str"
    /\ airflow_dag.report_for_past_n_days = "1"
    /\ Contains(airflow_dag.scriptedSql,
                " where event_date BETWEEN '" \o time_span.s
                    \o "' AND :endDate AND (")
    /\ Contains(airflow_dag.attachment_name, "_" \o time_span.s \o "_")
RollingJob(start, label) ==
    /\ template = "default"
    /\ Contains(airflow_dag.scriptedSql,
                " where event_date BETWEEN " \o start \o " AND :endDate AND (")
    /\ Contains(airflow_dag.attachment_name, "_" \o label \o "_")
    /\ Contains(airflow_dag.mail_subject, " " \o label \o " Report")
C13_MinuteInRange ==
    pc = "done" =>
        /\ timedelta_value[3] \in 0..59
        /\ isdigit(split_blank(cron_job)[1])
        /\ int(split_blank(cron_job)[1]) \in 0..59

\* the weekday names by their cron index, Sunday = 0 .. Saturday = 6
DayIndex ==
    [sunday |-> 0, monday |-> 1, tuesday |-> 2, wednesday |-> 3,
     thursday |-> 4, friday |-> 5, saturday |-> 6]
NamedDays(text) == {d \in DOMAIN DayIndex : Contains(text, d)}
HasDayToken(text) ==
    \E i \in 1..Len(split_ws(text)) : split_ws(text)[i] = "day"
\* C14: the cron is daily ('M H * * *') exactly when the first schedule text
\* contains 'daily' or a standalone 'day' token; otherwise it is weekly
\* ('M H * * w') with w the index of a weekday name contained in the text,
\* or 1 when it contains none.
C14_DailyOrWeekly ==
    pc \in {"cron", "done"} =>
        LET first == lower(all_data_df.period_and_time[1])
            field == split_blank(cron_job)[5]
        IN IF Contains(first, "daily") \/ HasDayToken(first)
           THEN field = "*"
           ELSE IF NamedDays(first) = {} THEN field = "1"
           ELSE \E d \in NamedDays(first) : field = str(DayIndex[d])

HasAny(text, names) == \E z \in names : Contains(text, z)
ZoneOffset(text) ==
    IF HasAny(text, {"ct", "cst"}) THEN 2
    ELSE IF HasAny(text, {"et", "est", "edt"}) THEN 3
    ELSE IF HasAny(text, {"mt", "mst"}) THEN 1
    ELSE 0
\* the hour taken from the schedule column, 4 when none is found
ExtractedHour(column) ==
    LET am_pm_match == first_am_pm(drop_duplicates(lower_all(column))) IN
    IF am_pm_match = <<>> THEN 4 ELSE am_pm_hour(am_pm_match)
\* C15: the hour field of the cron is (h - offset) mod 24, h the extracted
\* hour or 4, offset 2 for 'ct' / 'cst', else 3 for 'et' / 'est' / 'edt',
\* else 1 for 'mt' / 'mst', else 0: always an integer in 0..23.
C15_HourField ==
    pc \in {"cron", "done"} =>
        LET first == lower(all_data_df.period_and_time[1])
            h == ExtractedHour(all_data_df.period_and_time)
            field == split_blank(cron_job)[2]
        IN /\ isdigit(field)
           /\ int(field) \in 0..23
           /\ int(field) = (h - ZoneOffset(first)) % 24
\* the subtraction goes below 0
C15_Witness ==
    /\ pc = "cron"
    /\ all_data_df.period_and_time = <<"1 am et">>
    /\ cron_job = "0 22 * * 1"

\* C16: the lag derived from the cron of discover_cron is Daily when the
\* cron's fifth field is '*' and Weekly when it is a digit, never Monthly.
C16_NeverMonthly ==
    pc = "done" =>
        LET field == split_blank(cron_job)[5] IN
        /\ timedelta_value[1] # "Monthly"
        /\ field = "*" => timedelta_value[1] = "Daily"
        /\ isdigit(field) => timedelta_value[1] = "Weekly"
        /\ field = "*" \/ isdigit(field)
C16_Witness ==
    /\ pc = "done"
    /\ all_data_df.period_and_time = <<"every day 9 pm">>
    /\ cron_job = "0 21 * * *"
    /\ timedelta_value = <<"Daily", 18, 0>>

====
